---- MODULE Spec2Model ----
(***************************************************************************)
(* Order-taking workflow of src/order-taking/src/lib.rs.                   *)
(*                                                                         *)
(* Strings that the code inspects (String50, EmailAddress) are sequences   *)
(* of characters; identifiers that the code only moves around (order id,   *)
(* line id, product code) are opaque strings.  An anyhow error is the      *)
(* tuple of the parts of its message; Result<T> is a record with a tag.    *)
(***************************************************************************)
EXTENDS Integers, Sequences, FiniteSets, TLC

VARIABLES
    port_state,        \* what the caller's catalogue knows of each product code
    port_error,        \* the error the caller's closure returns for each non-present state
    pending,           \* unvalidated orders the caller will still submit, in order
    history,           \* completed invocations: <<unvalidated order, result>>
    pc,                \* position inside the current place_order invocation
    unvalidated_order, \* argument of the current invocation (<<>> when idle)
    order_id,          \* validate_order's local order_id (<<>> before it is built)
    idx,               \* position of the lines iterator (1-based)
    checked_code,      \* to_validated_order_line's local product_code (<<>> when unset)
    lines,             \* validated lines collected so far
    validated_order,   \* place_order's local validated_order (<<>> when none)
    result,            \* what the current invocation returned
    port_calls,        \* product codes the port was invoked with, in call order
    call,              \* simple-type constructor call under test: <<function, argument>>
    ret                \* its return value

vars == <<port_state, port_error, pending, history, pc, unvalidated_order, order_id,
          idx, checked_code, lines, validated_order, result, port_calls, call, ret>>

pipeline_vars == <<port_state, port_error, pending, history, pc, unvalidated_order,
                   order_id, idx, checked_code, lines, validated_order, result,
                   port_calls>>

-----------------------------------------------------------------------------
(* Bounds of the model *)

MaxLines == 2
MaxRuns == 3
MaxRepeatLines == 1
MaxStrLen == 52
MaxEmailLen == 4

-----------------------------------------------------------------------------
(* Result<T> and anyhow errors *)

Ok(v) == [tag |-> "Ok", value |-> v, error |-> <<>>]
Err(e) == [tag |-> "Err", value |-> <<>>, error |-> e]
NoResult == [tag |-> "none", value |-> <<>>, error |-> <<>>]

-----------------------------------------------------------------------------
(* simple_types *)

\* UTF-8 width of a character: String::len() counts bytes
Utf8Len(c) == IF c = "U+00E9" THEN 2 ELSE 1

RECURSIVE ByteLen(_)
ByteLen(s) == IF s = <<>> THEN 0 ELSE Utf8Len(Head(s)) + ByteLen(Tail(s))

String50Limit == 50

String50_create(string50) ==
    IF ByteLen(string50) > String50Limit
    THEN Err(<<"String to big">>)
    ELSE Ok(<<"String50", string50>>)

\* `.` of the regex crate matches any character but the line feed
Dot(c) == c # "\n"

\* Regex::is_match for the pattern .+@.+ : an unanchored search
EMAIL_RE_is_match(s) ==
    \E a \in 1..Len(s), at \in 1..Len(s), d \in 1..Len(s) :
        /\ a < at /\ at < d
        /\ s[at] = "@"
        /\ \A i \in a..(at - 1) : Dot(s[i])
        /\ \A i \in (at + 1)..d : Dot(s[i])

EmailAddress_create(email) ==
    IF EMAIL_RE_is_match(email)
    THEN Err(<<"Must have @ separator">>)
    ELSE Ok(<<"EmailAddress", email>>)

-----------------------------------------------------------------------------
(* public_types *)

ValidatedCustomerInfo_new(first_name, last_name, email_address) ==
    <<"ValidatedCustomerInfo", first_name, last_name, email_address>>

ProductCode_new(code) == <<"ProductCode", code>>
OrderId_new(id) == <<"OrderId", id>>
OrderLineId_new(id) == <<"OrderLineId", id>>
OrderQuantity_new(quantity) == <<"OrderQuantity", quantity>>

Address == <<"Address">>
BillableOrderPlaced == <<"BillableOrderPlaced">>
OrderPlaced == <<"OrderPlaced">>
OrderAcknowledgmentSent == <<"OrderAcknowledgmentSent">>
PlaceOrderEvent == {OrderPlaced, BillableOrderPlaced, OrderAcknowledgmentSent}

-----------------------------------------------------------------------------
(* implementation: value constructors *)

ValidatedOrderLine_new(order_line_id, product_code, quantity) ==
    [order_line_id |-> order_line_id, product_code |-> product_code,
     quantity |-> quantity]

ValidatedOrder_new(oid, shipping_address, billing_address, ls) ==
    [order_id |-> oid, shipping_address |-> shipping_address,
     billing_address |-> billing_address, lines |-> ls]

\* the three `?` of to_customer_info, in order
to_customer_info(unvalidated_customer_info) ==
    LET first_name == String50_create(unvalidated_customer_info.first_name)
        last_name == String50_create(unvalidated_customer_info.last_name)
        email_address == EmailAddress_create(unvalidated_customer_info.email_address)
    IN  IF first_name.tag = "Err" THEN first_name
        ELSE IF last_name.tag = "Err" THEN last_name
        ELSE IF email_address.tag = "Err" THEN email_address
        ELSE Ok(ValidatedCustomerInfo_new(first_name.value, last_name.value,
                                          email_address.value))

-----------------------------------------------------------------------------
(* The product-existence port handed to place_order *)

ProductCodes == {"P1", "P2"}
PortStates == {"present", "absent", "unavailable"}
NotFound == <<"not found!">>
PortErrors == {NotFound, <<"unavailable">>}

\* The caller's closure: Ok(()) for a code it finds, an error otherwise
check_product_exists(code) ==
    IF port_state[code[2]] = "present"
    THEN Ok(<<>>)
    ELSE Err(port_error[port_state[code[2]]])

-----------------------------------------------------------------------------
(* Inputs *)

OrderIds == {"", "ORD-1"}
OrderLineIds == {"", "L1"}
Quantities == {-1, 0, 5}

UnvalidatedOrderLine ==
    [order_line_id : OrderLineIds, product_code : ProductCodes, quantity : Quantities]

SeqsUpTo(S, n) == UNION {[1..k -> S] : k \in 0..n}

UnvalidatedOrders(n) == [order_id : OrderIds, lines : SeqsUpTo(UnvalidatedOrderLine, n)]

Ports ==
    {p \in [state : [ProductCodes -> PortStates],
            error : [PortStates \ {"present"} -> PortErrors]] :
        p.error["absent"] = NotFound}

-----------------------------------------------------------------------------
(* implementation: place_order, validate_order, to_validated_order_line *)

\* a reversed iterator, .iter().rev()
lines_iter_rev(i) ==
    unvalidated_order[1].lines[Len(unvalidated_order[1].lines) - i + 1]

\* unvalidated_order.lines.iter(): the i-th item the iterator yields
lines_iter(i) == unvalidated_order[1].lines[i]

\* the wrong variant of PlaceOrderEvent
place_order_event_order_placed(vo) == OrderPlaced

\* an event that depends on what the workflow has already been given
place_order_event_once(vo) ==
    IF \E h \in 1..Len(history) : history[h][1] = unvalidated_order[1]
    THEN OrderAcknowledgmentSent
    ELSE BillableOrderPlaced

\* the event place_order builds from a validated order
place_order_event(vo) == BillableOrderPlaced

\* The workflow closure is called: validate_order builds the order id and the
\* two addresses and sets up the lazy iterator over the lines.
place_order_call ==
    /\ pc = "idle"
    /\ pending # <<>>
    /\ unvalidated_order' = <<Head(pending)>>
    /\ pending' = Tail(pending)
    /\ order_id' = <<OrderId_new(Head(pending).order_id)>>
    /\ idx' = 1
    /\ checked_code' = <<>>
    /\ lines' = <<>>
    /\ validated_order' = <<>>
    /\ result' = NoResult
    /\ port_calls' = <<>>
    /\ pc' = "collect"
    /\ UNCHANGED <<port_state, port_error, history, call, ret>>

\* the port's answer dropped: check_product_exists(&product_code) without `?`
to_validated_order_line_check_unchecked ==
    /\ pc = "collect"
    /\ idx <= Len(unvalidated_order[1].lines)
    /\ port_calls' = Append(port_calls, ProductCode_new(lines_iter(idx).product_code))
    /\ checked_code' = <<ProductCode_new(lines_iter(idx).product_code)>>
    /\ pc' = "line"
    /\ UNCHANGED <<port_state, port_error, pending, history, unvalidated_order,
                   order_id, idx, lines, validated_order, result, call, ret>>

\* to_validated_order_line, first half: build the product code and ask the
\* port; its error leaves to_validated_order_line, collect, validate_order and
\* place_order through their `?`.
to_validated_order_line_check ==
    /\ pc = "collect"
    /\ idx <= Len(unvalidated_order[1].lines)
    /\ LET product_code == ProductCode_new(lines_iter(idx).product_code)
           exists == check_product_exists(product_code)
       IN  /\ port_calls' = Append(port_calls, product_code)
           /\ IF exists.tag = "Err"
              THEN /\ result' = Err(exists.error)
                   /\ checked_code' = <<>>
                   /\ pc' = "done"
              ELSE /\ result' = result
                   /\ checked_code' = <<product_code>>
                   /\ pc' = "line"
    /\ UNCHANGED <<port_state, port_error, pending, history, unvalidated_order,
                   order_id, idx, lines, validated_order, call, ret>>

\* to_validated_order_line, second half: build the line id and the quantity,
\* return the validated line, which collect pushes.
to_validated_order_line_build ==
    /\ pc = "line"
    /\ LET order_line_id == OrderLineId_new(lines_iter(idx).order_line_id)
           quantity == OrderQuantity_new(lines_iter(idx).quantity)
       IN  lines' = Append(lines,
                           ValidatedOrderLine_new(order_line_id, checked_code[1], quantity))
    /\ checked_code' = <<>>
    /\ idx' = idx + 1
    /\ pc' = "collect"
    /\ UNCHANGED <<port_state, port_error, pending, history, unvalidated_order,
                   order_id, validated_order, result, port_calls, call, ret>>

\* The iterator is exhausted: validate_order returns the validated order and
\* place_order returns its event.
validate_order_return ==
    /\ pc = "collect"
    /\ idx > Len(unvalidated_order[1].lines)
    /\ validated_order' = <<ValidatedOrder_new(order_id[1], Address, Address, lines)>>
    /\ result' = Ok(place_order_event(validated_order'[1]))
    /\ pc' = "done"
    /\ UNCHANGED <<port_state, port_error, pending, history, unvalidated_order,
                   order_id, idx, checked_code, lines, port_calls, call, ret>>

\* The caller receives the result.
place_order_return ==
    /\ pc = "done"
    /\ history' = Append(history, <<unvalidated_order[1], result>>)
    /\ pc' = "idle"
    /\ UNCHANGED <<port_state, port_error, pending, unvalidated_order, order_id, idx,
                   checked_code, lines, validated_order, result, port_calls, call, ret>>

Idle ==
    /\ history = <<>>
    /\ pc = "idle"
    /\ unvalidated_order = <<>>
    /\ order_id = <<>>
    /\ idx = 1
    /\ checked_code = <<>>
    /\ lines = <<>>
    /\ validated_order = <<>>
    /\ result = NoResult
    /\ port_calls = <<>>

NoCall ==
    /\ call = <<>>
    /\ ret = NoResult

\* One invocation of the workflow on any order, with any port
Init ==
    /\ \E p \in Ports : port_state = p.state /\ port_error = p.error
    /\ \E o \in UnvalidatedOrders(MaxLines) : pending = <<o>>
    /\ Idle
    /\ NoCall

Next ==
    \/ place_order_call
    \/ to_validated_order_line_check
    \/ to_validated_order_line_build
    \/ validate_order_return
    \/ place_order_return

Spec == Init /\ [][Next]_vars

\* MaxRuns invocations of the same workflow, on two orders in any pattern
OtherOrders ==
    {[order_id |-> "ORD-1", lines |-> <<>>],
     [order_id |-> "ORD-1",
      lines |-> <<[order_line_id |-> "L1", product_code |-> "P1", quantity |-> 5]>>]}

InitRepeat ==
    /\ \E p \in Ports : port_state = p.state /\ port_error = p.error
    /\ \E a \in UnvalidatedOrders(MaxRepeatLines), b \in OtherOrders :
           pending \in [1..MaxRuns -> {a, b}]
    /\ Idle
    /\ NoCall

SpecRepeat == InitRepeat /\ [][Next]_vars

-----------------------------------------------------------------------------
(* The simple-type constructors and to_customer_info, called on their own *)

Rep(c, n) == [i \in 1..n |-> c]

\* n one-byte characters followed by m two-byte characters
Names == {Rep("a", n) \o Rep("U+00E9", m) : n \in 0..MaxStrLen, m \in 0..MaxStrLen}

NameSamples ==
    {Rep(c, n) : c \in {"a", "U+00E9"},
                 n \in {0, MaxStrLen \div 2, MaxStrLen - 2, MaxStrLen - 1, MaxStrLen}}

Emails == SeqsUpTo({"a", "@", "\n"}, MaxEmailLen) \cup {Rep("a", MaxStrLen)}

UnvalidatedCustomerInfo ==
    [first_name : NameSamples, last_name : NameSamples, email_address : Emails]

String50_create_call ==
    /\ call = <<>>
    /\ \E s \in Names :
           /\ call' = <<"String50::create", s>>
           /\ ret' = String50_create(s)
    /\ UNCHANGED pipeline_vars

EmailAddress_create_call ==
    /\ call = <<>>
    /\ \E s \in Emails :
           /\ call' = <<"EmailAddress::create", s>>
           /\ ret' = EmailAddress_create(s)
    /\ UNCHANGED pipeline_vars

to_customer_info_call ==
    /\ call = <<>>
    /\ \E c \in UnvalidatedCustomerInfo :
           /\ call' = <<"to_customer_info", c>>
           /\ ret' = to_customer_info(c)
    /\ UNCHANGED pipeline_vars

InitCustomer ==
    /\ port_state = [c \in ProductCodes |-> "present"]
    /\ port_error = [s \in PortStates \ {"present"} |-> NotFound]
    /\ pending = <<>>
    /\ Idle
    /\ NoCall

NextCustomer ==
    \/ String50_create_call
    \/ EmailAddress_create_call
    \/ to_customer_info_call

SpecCustomer == InitCustomer /\ [][NextCustomer]_vars

-----------------------------------------------------------------------------
(* Vocabulary of the properties *)

Running == unvalidated_order # <<>>
Done == pc = "done"
Input == unvalidated_order[1]

PortAnswer(line) == check_product_exists(ProductCode_new(line.product_code))

\* the lines of o for whose product code the port returns an error
Rejected(o) == {i \in 1..Len(o.lines) : PortAnswer(o.lines[i]).tag = "Err"}
Absent(o) == {i \in 1..Len(o.lines) : port_state[o.lines[i].product_code] = "absent"}
NonPositive(o) == {i \in 1..Len(o.lines) : o.lines[i].quantity <= 0}
First(S) == CHOOSE i \in S : \A j \in S : i <= j

\* failure kinds of the specification that no code path builds
UnknownProduct(code) == <<"UnknownProduct", code>>
EmptyOrder == <<"EmptyOrder">>
NonPositiveQuantity(line_id) == <<"NonPositiveQuantity", line_id>>
InvalidOrderId == <<"InvalidOrderId">>
\* failure kinds of the specification, as the messages the code gives them
InvalidEmailFormat == <<"Must have @ separator">>
FieldTooLong == <<"String to big">>

IdsOk(o) ==
    /\ o.order_id # ""
    /\ \A i \in 1..Len(o.lines) : o.lines[i].order_line_id # ""

WellFormed(o) ==
    /\ o.lines # <<>>
    /\ IdsOk(o)
    /\ \A i \in 1..Len(o.lines) :
           /\ port_state[o.lines[i].product_code] = "present"
           /\ o.lines[i].quantity > 0

-----------------------------------------------------------------------------
\* C1: an order with at least one line, a non-empty order id, every product
\* code reported present, every line id non-empty and every quantity > 0 makes
\* the workflow succeed, and what it returns is one event, the
\* BillableOrderPlaced variant.
C1_WellFormedOrderIsBillable ==
    (Done /\ WellFormed(Input)) =>
        /\ result = Ok(BillableOrderPlaced)
        /\ result.value \in PlaceOrderEvent

C1_Witness ==
    /\ Done
    /\ WellFormed(Input)
    /\ Len(Input.lines) >= 2
    /\ result.tag = "Ok"

C3_EmptyOrderFails ==
    /\ (Done /\ Input.lines = <<>>) => result = Err(EmptyOrder)
    /\ validated_order # <<>> => validated_order[1].lines # <<>>

\* C4: an order with a line of quantity <= 0, its ids non-empty and all its
\* product codes present, fails with NonPositiveQuantity for that line's id:
\* it returns no event, and no OrderQuantity is built from an integer <= 0.
C4_NonPositiveQuantityFails ==
    (Done /\ IdsOk(Input) /\ Rejected(Input) = {} /\ NonPositive(Input) # {}) =>
        /\ result = Err(NonPositiveQuantity(
                            Input.lines[First(NonPositive(Input))].order_line_id))
        /\ \A i \in 1..Len(lines) : lines[i].quantity[2] > 0

\* C7: an empty raw order id makes place_order fail with InvalidOrderId before
\* the port is invoked; no validated order carries an empty OrderId or an
\* empty OrderLineId.
C7_EmptyIdsAreRejected ==
    /\ (Done /\ Input.order_id = "") =>
           (result = Err(InvalidOrderId) /\ port_calls = <<>>)
    /\ validated_order # <<>> =>
           /\ validated_order[1].order_id[2] # ""
           /\ \A i \in 1..Len(validated_order[1].lines) :
                  validated_order[1].lines[i].order_line_id[2] # ""

\* C8: when the port itself fails on the line that stops the order, the
\* failure place_order returns differs from the one it returns for an
\* 'absent' answer.
C8_PortFailureIsDistinct ==
    (Done /\ Rejected(Input) # {}
          /\ port_state[Input.lines[First(Rejected(Input))].product_code] = "unavailable") =>
        /\ result.tag = "Err"
        /\ result # Err(port_error["absent"])

\* C9: within one invocation the port is invoked on the lines in input order,
\* at most once per line, on a line only after all earlier lines were
\* validated, and before that line's id and quantity are built; once a line
\* fails the port is not invoked again and the failure returned is that
\* line's; on success the port was invoked once per line and the validated
\* lines are the input lines, in order.
C9_InOrderFailFast ==
    Running =>
        /\ Len(port_calls) <= Len(Input.lines)
        /\ port_calls = [i \in 1..Len(port_calls) |->
                             ProductCode_new(Input.lines[i].product_code)]
        /\ Len(lines) <= Len(port_calls)
        /\ Len(port_calls) <= Len(lines) + 1
        /\ pc = "line" => Len(port_calls) = Len(lines) + 1
        /\ \A i \in 1..Len(lines) :
               /\ PortAnswer(Input.lines[i]).tag = "Ok"
               /\ lines[i] = ValidatedOrderLine_new(
                                 OrderLineId_new(Input.lines[i].order_line_id),
                                 ProductCode_new(Input.lines[i].product_code),
                                 OrderQuantity_new(Input.lines[i].quantity))
        /\ result.tag = "Err" =>
               /\ Rejected(Input) # {}
               /\ Len(port_calls) = First(Rejected(Input))
               /\ Len(lines) = First(Rejected(Input)) - 1
               /\ result.error = PortAnswer(Input.lines[First(Rejected(Input))]).error
        /\ result.tag = "Ok" =>
               /\ Len(port_calls) = Len(Input.lines)
               /\ Len(lines) = Len(Input.lines)
               /\ validated_order = <<ValidatedOrder_new(
                                        OrderId_new(Input.order_id), Address, Address, lines)>>

C9_Witness ==
    /\ Done
    /\ Len(Input.lines) >= 2
    /\ Rejected(Input) = 1..Len(Input.lines)
    /\ Input.lines[1].product_code # Input.lines[2].product_code
    /\ port_calls = <<ProductCode_new(Input.lines[1].product_code)>>
    /\ result.tag = "Err"

\* C10: two invocations of the same workflow on equal orders, whatever was
\* invoked before or between them, return the same outcome.
C10_SameOrderSameOutcome ==
    \A i, j \in 1..Len(history) :
        history[i][1] = history[j][1] => history[i][2] = history[j][2]

C10_Witness ==
    /\ Len(history) >= 3
    /\ history[1][1] = history[3][1]
    /\ history[1][1] # history[2][1]
    /\ history[1][2] # history[2][2]
    /\ history[1][2].tag = "Ok"

-----------------------------------------------------------------------------
(* Properties of the constructors, under SpecCustomer *)

Called(f) == call # <<>> /\ call[1] = f
CountOf(c, s) == Cardinality({i \in 1..Len(s) : s[i] = c})

\* one '@', with a non-empty part on each side
OneAtBetweenParts(s) ==
    /\ CountOf("@", s) = 1
    /\ s[1] # "@"
    /\ s[Len(s)] # "@"

\* C5: EmailAddress::create succeeds on a string with exactly one '@' and a
\* non-empty part on each side, and fails with InvalidEmailFormat on a string
\* with no '@'; so does to_customer_info for such an email.
C5_EmailNeedsSeparator ==
    /\ Called("EmailAddress::create") =>
           /\ OneAtBetweenParts(call[2]) => ret = Ok(<<"EmailAddress", call[2]>>)
           /\ CountOf("@", call[2]) = 0 => ret = Err(InvalidEmailFormat)
    /\ (Called("to_customer_info") /\ CountOf("@", call[2].email_address) = 0) =>
           ret = Err(InvalidEmailFormat)

\* C6: String50::create succeeds, storing its input, on every string of at
\* most 50 characters, and fails with FieldTooLong on every longer one.
C6_FiftyCharacters ==
    Called("String50::create") =>
        /\ Len(call[2]) <= String50Limit => ret = Ok(<<"String50", call[2]>>)
        /\ Len(call[2]) > String50Limit => ret = Err(FieldTooLong)

====
